---- MODULE Spec2Model ----
(***************************************************************************)
(* Model of src/driver.py: the getSessionId UDF and the four aggregation   *)
(* passes over the session-tagged DataFrame.                               *)
(*                                                                         *)
(* Strings are sequences of one-character strings, so that split, replace  *)
(* and format act on characters as they do in the program.  Timestamps     *)
(* have second precision and are records of calendar fields.               *)
(***************************************************************************)
EXTENDS Integers, Sequences, FiniteSets, TLC

VARIABLES
    pc,                 \* position of the driver script / of the UDF call
    baseDF,             \* rows read from the log files, in file order
    part,               \* part[i]: the input partition (file split) of row i
    tagged,             \* baseDF with the columns ip and session_id (cached)
    sessionStatsDF,     \* result table 1, ordered by total_hits
    sessionDurationsDF, \* stage 1 of table 2: the rows carrying duration_sec
    avgSessionStatsDF,  \* result table 2, ordered by avg_session_time_in_min
    uniqueURLDF,        \* result table 3, ordered by num_unique_hits
    mostEngaugedDF,     \* result table 4, ordered by duration_min
    currentTimestamp,   \* argument of the UDF call under test
    udfIp,              \* argument of the UDF call under test
    udfResult           \* value returned by the UDF call under test

vars == <<pc, baseDF, part, tagged, sessionStatsDF, sessionDurationsDF, avgSessionStatsDF,
          uniqueURLDF, mostEngaugedDF, currentTimestamp, udfIp, udfResult>>

pipeVars == <<baseDF, part, tagged, sessionStatsDF, sessionDurationsDF, avgSessionStatsDF,
              uniqueURLDF, mostEngaugedDF>>

udfVars == <<currentTimestamp, udfIp, udfResult>>

----------------------------------------------------------------------------
(* Bounds of the model *)

MaxEvents == 3

NumPartitions == 2

----------------------------------------------------------------------------
(* Generic helpers *)

Max(a, b) == IF a >= b THEN a ELSE b

RECURSIVE GCD(_, _)
GCD(a, b) == IF b = 0 THEN a ELSE GCD(b, a % b)

RECURSIVE SumOver(_, _)
\* sum of val[x] over the finite set S
SumOver(S, val) ==
    IF S = {} THEN 0
    ELSE LET x == CHOOSE y \in S : TRUE
         IN  val[x] + SumOver(S \ {x}, val)

Reverse(s) == [i \in 1..Len(s) |-> s[Len(s) + 1 - i]]

\* all orderings of the finite set S, as sequences without repetition
Orderings(S) ==
    {s \in [1..Cardinality(S) -> S] : \A i, j \in DOMAIN s : i # j => s[i] # s[j]}

----------------------------------------------------------------------------
(* Strings *)

Digit(n) == <<"0", "1", "2", "3", "4", "5", "6", "7", "8", "9">>[n + 1]

\* strftime("%m"), ("%d"), ("%H"): two digits, zero padded
Pad2(n) == <<Digit((n \div 10) % 10), Digit(n % 10)>>

\* strftime("%Y") for a four-digit year
Pad4(n) == <<Digit((n \div 1000) % 10), Digit((n \div 100) % 10)>> \o Pad2(n % 100)

\* str.replace(old, new) for one-character old and new
Replace(s, old, new) == [i \in 1..Len(s) |-> IF s[i] = old THEN new ELSE s[i]]

RECURSIVE SplitFrom(_, _, _, _)
\* the tokens of s[i..], cur being the token read so far
SplitFrom(s, sep, i, cur) ==
    IF i > Len(s) THEN <<cur>>
    ELSE IF s[i] = sep THEN <<cur>> \o SplitFrom(s, sep, i + 1, <<>>)
    ELSE SplitFrom(s, sep, i + 1, Append(cur, s[i]))

\* f.split(column, sep): every separator ends a token, empty tokens are kept
Split(s, sep) == SplitFrom(s, sep, 1, <<>>)

----------------------------------------------------------------------------
(* Timestamps *)

\* days since 1970-01-01 of a civil date (proleptic Gregorian calendar)
DaysFromCivil(y, m, d) ==
    LET yy  == IF m <= 2 THEN y - 1 ELSE y
        era == yy \div 400
        yoe == yy - era * 400
        mp  == (m + 9) % 12
        doy == (153 * mp + 2) \div 5 + d - 1
        doe == yoe * 365 + yoe \div 4 - yoe \div 100 + doy
    IN  era * 146097 + doe - 719468

\* timestamp.cast('long'): whole seconds since the epoch
CastLong(ts) ==
    ((DaysFromCivil(ts.year, ts.month, ts.day) * 24 + ts.hour) * 60 + ts.minute) * 60
        + ts.second

----------------------------------------------------------------------------
(* getSessionId *)

\* the branch-heavy variant a bug would produce: minute 15 wholly in the first block
Blocks_Mut(ts) ==
    IF 0 <= ts.minute /\ ts.minute <= 15
      THEN <<"0", "0", "1", "5">>
    ELSE IF (16 <= ts.minute /\ ts.minute <= 29) \/ (ts.minute = 30 /\ ts.second = 0)
      THEN <<"1", "6", "3", "0">>
    ELSE IF (ts.minute = 30 /\ ts.second > 0) \/ (31 <= ts.minute /\ ts.minute <= 44)
            \/ (ts.minute = 45 /\ ts.second = 0)
      THEN <<"3", "1", "4", "5">>
    ELSE <<"4", "6", "6", "0">>

\* start_block followed by end_block
Blocks(ts) ==
    IF (0 <= ts.minute /\ ts.minute <= 14) \/ (ts.minute = 15 /\ ts.second = 0)
      THEN <<"0", "0", "1", "5">>
    ELSE IF (ts.minute = 15 /\ ts.second > 0) \/ (16 <= ts.minute /\ ts.minute <= 29)
            \/ (ts.minute = 30 /\ ts.second = 0)
      THEN <<"1", "6", "3", "0">>
    ELSE IF (ts.minute = 30 /\ ts.second > 0) \/ (31 <= ts.minute /\ ts.minute <= 44)
            \/ (ts.minute = 45 /\ ts.second = 0)
      THEN <<"3", "1", "4", "5">>
    ELSE <<"4", "6", "6", "0">>

\* "{}{}{}-{}-{}{}-{}".format(%Y, %m, %d, %H, start_block, end_block, ip.replace(".", "-"))
getSessionId(ts, ipStr) ==
    Pad4(ts.year) \o Pad2(ts.month) \o Pad2(ts.day) \o <<"-">> \o Pad2(ts.hour)
        \o <<"-">> \o Blocks(ts) \o <<"-">> \o Replace(ipStr, ".", "-")

----------------------------------------------------------------------------
(* A single call of the UDF, over every minute and second of the hour *)

UdfTimestamps ==
    [year : {2015}, month : {7}, day : {21, 22}, hour : {6, 23},
     minute : 0..59, second : 0..59]

UdfIps == {<<"1", ".", "2">>, <<"1", "-", "2">>}

NoTable == <<>>

InitAssign ==
    /\ pc = "call"
    /\ currentTimestamp \in UdfTimestamps
    /\ udfIp \in UdfIps
    /\ udfResult = <<>>
    /\ baseDF = <<>>
    /\ part = <<>>
    /\ tagged = <<>>
    /\ sessionStatsDF = NoTable
    /\ sessionDurationsDF = {}
    /\ avgSessionStatsDF = NoTable
    /\ uniqueURLDF = NoTable
    /\ mostEngaugedDF = NoTable

CallGetSessionId ==
    /\ pc = "call"
    /\ udfResult' = getSessionId(currentTimestamp, udfIp)
    /\ pc' = "returned"
    /\ UNCHANGED <<currentTimestamp, udfIp>>
    /\ UNCHANGED pipeVars

NextAssign == CallGetSessionId

SpecAssign == InitAssign /\ [][NextAssign]_vars

\* the block label inside a session id: the four characters after "YYYYMMDD-HH-"
BlockOf(sid) == SubSeq(sid, 13, 16)

\* seconds elapsed since the start of the hour
SecondOfHour(ts) == 60 * ts.minute + ts.second

\* C1: every (minute, second) is assigned exactly the block the boundary rule
\* names: 00-15 up to and including 15:00, 16-30 from 15:01 to 30:00, 31-45 from
\* 30:01 to 45:00, 46-60 from 45:01 to 59:59.
C1_BucketBoundaries ==
    pc = "returned" =>
        LET t == SecondOfHour(currentTimestamp)
            b == BlockOf(udfResult)
        IN  /\ b \in {<<"0", "0", "1", "5">>, <<"1", "6", "3", "0">>,
                      <<"3", "1", "4", "5">>, <<"4", "6", "6", "0">>}
            /\ (b = <<"0", "0", "1", "5">>) <=> (t <= 900)
            /\ (b = <<"1", "6", "3", "0">>) <=> (901 <= t /\ t <= 1800)
            /\ (b = <<"3", "1", "4", "5">>) <=> (1801 <= t /\ t <= 2700)
            /\ (b = <<"4", "6", "6", "0">>) <=> (2701 <= t)

\* a call at the boundary second 15:00 has returned the block 00-15
C1_Witness ==
    /\ pc = "returned"
    /\ currentTimestamp.minute = 15
    /\ currentTimestamp.second = 0
    /\ BlockOf(udfResult) = <<"0", "0", "1", "5">>

----------------------------------------------------------------------------
(* Rows of the input *)

Ts(d, h, m, s) ==
    [year |-> 2015, month |-> 7, day |-> d, hour |-> h, minute |-> m, second |-> s]

Row(ts, cp, req, ua) ==
    [timestamp |-> ts, client_port |-> cp, request |-> req, user_agent |-> ua]

ReqA == <<"G", " ", "/", "a", " ", "H">>

ReqB == <<"G", " ", "/", "b", " ", "H">>

\* a request line with a single token
ReqShort == <<"G">>

\* the log lines the model reads from: one client in two blocks of one hour,
\* at both ends of the first block, with two ports, two URLs and two user
\* agents; a client whose host differs from it only in '.' versus '-'; a
\* one-token request, at another hour of another date
Lines ==
    { Row(Ts(22, 6, 0, 0),   <<"1", ".", "2", ":", "8">>, ReqA, <<"A">>),
      Row(Ts(22, 6, 15, 0),  <<"1", ".", "2", ":", "9">>, ReqA, <<"A">>),
      Row(Ts(22, 6, 15, 1),  <<"1", ".", "2", ":", "8">>, ReqB, <<"B">>),
      Row(Ts(22, 6, 5, 30),  <<"1", ".", "2", ":", "8">>, ReqB, <<"B">>),
      Row(Ts(22, 6, 5, 30),  <<"1", "-", "2", ":", "8">>, ReqShort, <<"A">>),
      Row(Ts(21, 7, 0, 0),   <<"1", ".", "2", ":", "8">>, ReqShort, <<"A">>) }

\* f.split(client_port, ':').getItem(0)
IpOf(cp) == Split(cp, ":")[1]

\* withColumn('ip', ...) and withColumn('session_id', getSessionId(timestamp, ip))
TagRow(r) ==
    LET i == IpOf(r.client_port)
    IN  [timestamp |-> r.timestamp, client_port |-> r.client_port,
         request |-> r.request, user_agent |-> r.user_agent,
         ip |-> i, session_id |-> getSessionId(r.timestamp, i)]

\* the splits of n rows read in order into NumPartitions input partitions
Splits(n) ==
    {p \in [1..n -> 1..NumPartitions] : \A i, j \in 1..n : i <= j => p[i] <= p[j]}

RECURSIVE PartRowsFrom(_, _, _, _)
PartRowsFrom(rows, p, k, i) ==
    IF i > Len(rows) THEN <<>>
    ELSE (IF p[i] = k THEN <<rows[i]>> ELSE <<>>) \o PartRowsFrom(rows, p, k, i + 1)

\* the rows of partition k, in their order
PartRows(rows, p, k) == PartRowsFrom(rows, p, k, 1)

----------------------------------------------------------------------------
(* Grouping keys, aggregation buffers and sort keys of the four passes *)

IntGt(a, b) == a > b

\* a non-negative quotient n / d, d > 0, in lowest terms
Frac(n, d) == LET g == GCD(n, d) IN [num |-> n \div g, den |-> d \div g]

FracGt(a, b) == a.num * b.den > b.num * a.den

\* groupby("ip", "session_id")
SessionKey(r) == [ip |-> r.ip, session_id |-> r.session_id]

\* f.count('*')
CountStart(r) == 1

CountUpdate(buf, r) == buf + 1

\* a merge that keeps the larger partial count instead of adding them
CountMerge_Mut(a, b) == Max(a, b)

CountMerge(a, b) == a + b

TotalHits(r) == r.total_hits

\* the later of two timestamps
TsMax(a, b) == IF CastLong(a) >= CastLong(b) THEN a ELSE b

\* the earlier of two timestamps
TsMin(a, b) == IF CastLong(a) <= CastLong(b) THEN a ELSE b

\* f.max("timestamp"), f.min("timestamp")
MaxMinStart(r) == [max_ts |-> r.timestamp, min_ts |-> r.timestamp]

MaxMinUpdate(buf, r) ==
    [max_ts |-> TsMax(buf.max_ts, r.timestamp), min_ts |-> TsMin(buf.min_ts, r.timestamp)]

\* a merge that keeps the second partition's maximum instead of the larger one
MaxMinMerge_Mut(a, b) ==
    [max_ts |-> b.max_ts, min_ts |-> TsMin(a.min_ts, b.min_ts)]

MaxMinMerge(a, b) ==
    [max_ts |-> TsMax(a.max_ts, b.max_ts), min_ts |-> TsMin(a.min_ts, b.min_ts)]

\* groupby("ip")
IpKey(r) == r.ip

\* f.count('session_id'), f.sum('duration_sec')
SumStart(r) == [total_sessions |-> 1, total_duration_sec |-> r.duration_sec]

SumUpdate(buf, r) ==
    [total_sessions |-> buf.total_sessions + 1,
     total_duration_sec |-> buf.total_duration_sec + r.duration_sec]

SumMerge(a, b) ==
    [total_sessions |-> a.total_sessions + b.total_sessions,
     total_duration_sec |-> a.total_duration_sec + b.total_duration_sec]

AvgTime(r) == r.avg_session_time_in_min

\* SQL NULL in the url column
Null == [isNull |-> TRUE, val |-> <<>>]

\* getItem(1) has no element to return
OutOfBounds(req) == Len(Split(req, " ")) < 2

\* f.split("request", " ").getItem(1) where it does not raise
UrlOf(req) ==
    LET tokens == Split(req, " ")
    IN  IF Len(tokens) >= 2 THEN [isNull |-> FALSE, val |-> tokens[2]] ELSE Null

UrlRow(r) == [session_id |-> r.session_id, request |-> r.request, url |-> UrlOf(r.request)]

\* groupby('session_id')
SessionIdKey(r) == r.session_id

\* f.countDistinct('url'): the distinct values seen, NULL skipped
DistinctStart(r) == IF r.url.isNull THEN {} ELSE {r.url.val}

DistinctUpdate(buf, r) == IF r.url.isNull THEN buf ELSE buf \cup {r.url.val}

DistinctMerge(a, b) == a \cup b

NumUniqueHits(r) == r.num_unique_hits

\* f.sha2(user_agent, 256): a digest of fixed length, here its first two hex
\* digits, distinct for distinct user agents of the model
Sha2(ua) ==
    CASE ua = <<"A">> -> <<"5", "5">>
      [] ua = <<"B">> -> <<"d", "f">>
      [] OTHER -> <<"e", "3">>

\* a user key without the user agent
User_Mut(r) == r.ip

\* f.concat("ip", f.lit('_'), f.sha2("user_agent", 256))
User(r) == r.ip \o <<"_">> \o Sha2(r.user_agent)

\* groupby('user', 'session_id')
UserKey(r) == [user |-> User(r), session_id |-> r.session_id]

DurationMin(r) == r.duration_min

\* the grouping key of row r in the aggregation agg
KeyOf(agg, r) ==
    CASE agg = "hits" -> SessionKey(r)
      [] agg = "durations" -> SessionKey(r)
      [] agg = "avg" -> IpKey(r)
      [] agg = "urls" -> SessionIdKey(r)
      [] agg = "engaged" -> UserKey(r)

\* the buffer of a group whose first row is r
StartOf(agg, r) ==
    CASE agg = "hits" -> CountStart(r)
      [] agg = "durations" -> MaxMinStart(r)
      [] agg = "avg" -> SumStart(r)
      [] agg = "urls" -> DistinctStart(r)
      [] agg = "engaged" -> MaxMinStart(r)

\* the buffer buf after one more row r of its group
UpdateOf(agg, buf, r) ==
    CASE agg = "hits" -> CountUpdate(buf, r)
      [] agg = "durations" -> MaxMinUpdate(buf, r)
      [] agg = "avg" -> SumUpdate(buf, r)
      [] agg = "urls" -> DistinctUpdate(buf, r)
      [] agg = "engaged" -> MaxMinUpdate(buf, r)

\* the buffers a and b of one group in two partitions, merged
MergeOf(agg, a, b) ==
    CASE agg = "hits" -> CountMerge(a, b)
      [] agg = "durations" -> MaxMinMerge(a, b)
      [] agg = "avg" -> SumMerge(a, b)
      [] agg = "urls" -> DistinctMerge(a, b)
      [] agg = "engaged" -> MaxMinMerge(a, b)

\* the column the table of agg is ordered by
SortKeyOf(agg, r) ==
    CASE agg = "hits" -> TotalHits(r)
      [] agg = "avg" -> AvgTime(r)
      [] agg = "urls" -> NumUniqueHits(r)
      [] agg = "engaged" -> DurationMin(r)

SortGt(agg, a, b) ==
    IF agg \in {"hits", "urls"} THEN IntGt(a, b) ELSE FracGt(a, b)

----------------------------------------------------------------------------
(* groupby(...).agg(...): one buffer per key, updated row by row inside each  *)
(* partition, the partitions' buffers then merged in some order              *)

NoGroups == [k \in {} |-> 0]

PartialAgg(rows, agg) ==
    LET f[i \in 0..Len(rows)] ==
            IF i = 0 THEN NoGroups
            ELSE LET m == f[i - 1]
                     r == rows[i]
                     key == KeyOf(agg, r)
                 IN  [k \in DOMAIN m \cup {key} |->
                        IF k = key
                          THEN (IF k \in DOMAIN m THEN UpdateOf(agg, m[k], r)
                                ELSE StartOf(agg, r))
                          ELSE m[k]]
    IN  f[Len(rows)]

MergeGroups(a, b, agg) ==
    [k \in DOMAIN a \cup DOMAIN b |->
        IF k \in DOMAIN a /\ k \in DOMAIN b THEN MergeOf(agg, a[k], b[k])
        ELSE IF k \in DOMAIN a THEN a[k] ELSE b[k]]

GroupByAgg(rows, p, order, agg) ==
    LET g[j \in 0..Len(order)] ==
            IF j = 0 THEN NoGroups
            ELSE MergeGroups(g[j - 1], PartialAgg(PartRows(rows, p, order[j]), agg), agg)
    IN  g[Len(order)]

\* orderBy(column, ascending=False): rows with a larger key come first, rows with
\* equal keys come in no specified order: the table is its sequence of tie classes
OrderByDesc(rows, agg) ==
    LET keys == {SortKeyOf(agg, x) : x \in rows}
        rank(r) == 1 + Cardinality({k \in keys : SortGt(agg, k, SortKeyOf(agg, r))})
    IN  [i \in 1..Cardinality(keys) |-> {r \in rows : rank(r) = i}]

\* the rows of a table
Rows(table) == UNION {table[i] : i \in DOMAIN table}

----------------------------------------------------------------------------
(* 1. sessionStatsDF *)

\* an aggregate without grouping: one row whatever the input
SessionStats_Mut(rows, p, order) ==
    <<{[ip |-> <<>>, session_id |-> <<>>, total_hits |-> Len(rows)]}>>

SessionStats(rows, p, order) ==
    LET g == GroupByAgg(rows, p, order, "hits")
    IN  OrderByDesc({[ip |-> k.ip, session_id |-> k.session_id, total_hits |-> g[k]]
                        : k \in DOMAIN g},
                    "hits")

----------------------------------------------------------------------------
(* 2. avgSessionStatsDF *)

\* stage 1: max_ts, min_ts and duration_sec of every (ip, session_id)
SessionDurations(rows, p, order) ==
    LET g == GroupByAgg(rows, p, order, "durations")
    IN  {[ip |-> k.ip, session_id |-> k.session_id,
          max_ts |-> g[k].max_ts, min_ts |-> g[k].min_ts,
          duration_sec |-> CastLong(g[k].max_ts) - CastLong(g[k].min_ts)]
            : k \in DOMAIN g}

\* an average over 60 * (total_sessions + 1)
AvgSessionTime_Mut(total_duration_sec, total_sessions) ==
    Frac(total_duration_sec, 60 * (total_sessions + 1))

\* (total_duration_sec / 60) / total_sessions
AvgSessionTime(total_duration_sec, total_sessions) ==
    LET perMin == Frac(total_duration_sec, 60)
    IN  Frac(perMin.num, perMin.den * total_sessions)

\* stage 2 over the stage-1 rows in the order durations gives them
AvgSessionStats(durations) ==
    LET one == [i \in 1..Len(durations) |-> 1]
        g == GroupByAgg(durations, one, <<1>>, "avg")
    IN  OrderByDesc({[ip |-> k,
                      total_sessions |-> g[k].total_sessions,
                      total_duration_sec |-> g[k].total_duration_sec,
                      avg_session_time_in_min |->
                          AvgSessionTime(g[k].total_duration_sec, g[k].total_sessions)]
                        : k \in DOMAIN g},
                    "avg")

----------------------------------------------------------------------------
(* 3. uniqueURLDF *)

\* f.count('url') in place of f.countDistinct('url')
UniqueURL_Mut(rows, p, order) ==
    OrderByDesc({[session_id |-> k,
                  num_unique_hits |->
                      Cardinality({i \in DOMAIN rows :
                                      rows[i].session_id = k
                                          /\ ~UrlOf(rows[i].request).isNull})]
                    : k \in {rows[i].session_id : i \in DOMAIN rows}},
                "urls")

UniqueURL(rows, p, order) ==
    LET urlRows == [i \in 1..Len(rows) |-> UrlRow(rows[i])]
        g == GroupByAgg(urlRows, p, order, "urls")
    IN  OrderByDesc({[session_id |-> k, num_unique_hits |-> Cardinality(g[k])]
                        : k \in DOMAIN g},
                    "urls")

----------------------------------------------------------------------------
(* 4. mostEngaugedDF *)

MostEngauged(rows, p, order) ==
    LET g == GroupByAgg(rows, p, order, "engaged")
    IN  OrderByDesc({[user |-> k.user, session_id |-> k.session_id,
                      duration_min |->
                          Frac(CastLong(g[k].max_ts) - CastLong(g[k].min_ts), 60)]
                        : k \in DOMAIN g},
                    "engaged")

----------------------------------------------------------------------------
(* The driver script *)

MergeOrders == Orderings(1..NumPartitions)

Init ==
    /\ pc = "read"
    /\ baseDF = <<>>
    /\ part = <<>>
    /\ tagged = <<>>
    /\ sessionStatsDF = NoTable
    /\ sessionDurationsDF = {}
    /\ avgSessionStatsDF = NoTable
    /\ uniqueURLDF = NoTable
    /\ mostEngaugedDF = NoTable
    /\ currentTimestamp = Ts(22, 6, 0, 0)
    /\ udfIp = <<>>
    /\ udfResult = <<>>

\* spark.read.csv yields one more row
ReadLine ==
    /\ pc = "read"
    /\ Len(baseDF) < MaxEvents
    /\ \E e \in Lines : baseDF' = Append(baseDF, e)
    /\ UNCHANGED <<pc, part, tagged, sessionStatsDF, sessionDurationsDF,
                   avgSessionStatsDF, uniqueURLDF, mostEngaugedDF>>
    /\ UNCHANGED udfVars

\* the tagged DataFrame, cached in the partitions the input was read in
Tag ==
    /\ pc = "read"
    /\ tagged' = [i \in 1..Len(baseDF) |-> TagRow(baseDF[i])]
    /\ part' \in Splits(Len(baseDF))
    /\ pc' = "hits"
    /\ UNCHANGED <<baseDF, sessionStatsDF, sessionDurationsDF, avgSessionStatsDF,
                   uniqueURLDF, mostEngaugedDF>>
    /\ UNCHANGED udfVars

ShowSessionStats ==
    /\ pc = "hits"
    /\ sessionStatsDF' \in {SessionStats(tagged, part, order) : order \in MergeOrders}
    /\ pc' = "avg"
    /\ UNCHANGED <<baseDF, part, tagged, sessionDurationsDF, avgSessionStatsDF,
                   uniqueURLDF, mostEngaugedDF>>
    /\ UNCHANGED udfVars

\* the stage-1 rows reach stage 2 in some order
ShowAvgSessionStats ==
    /\ pc = "avg"
    /\ sessionDurationsDF' \in {SessionDurations(tagged, part, order) : order \in MergeOrders}
    /\ avgSessionStatsDF' \in {AvgSessionStats(durations) :
                                  durations \in Orderings(sessionDurationsDF')}
    /\ pc' = "url"
    /\ UNCHANGED <<baseDF, part, tagged, sessionStatsDF, uniqueURLDF, mostEngaugedDF>>
    /\ UNCHANGED udfVars

\* getItem(1) on a request of fewer than two tokens is NULL, or raises where the
\* session runs with ANSI SQL semantics (the script's SparkConf leaves it to the
\* installation); an exception ends the script
ShowUniqueURL ==
    /\ pc = "url"
    /\ \E ansi \in BOOLEAN :
         IF ansi /\ \E i \in DOMAIN tagged : OutOfBounds(tagged[i].request)
           THEN /\ pc' = "error"
                /\ UNCHANGED uniqueURLDF
           ELSE /\ uniqueURLDF' \in {UniqueURL(tagged, part, order) : order \in MergeOrders}
                /\ pc' = "engaged"
    /\ UNCHANGED <<baseDF, part, tagged, sessionStatsDF, sessionDurationsDF,
                   avgSessionStatsDF, mostEngaugedDF>>
    /\ UNCHANGED udfVars

ShowMostEngauged ==
    /\ pc = "engaged"
    /\ mostEngaugedDF' \in {MostEngauged(tagged, part, order) : order \in MergeOrders}
    /\ pc' = "done"
    /\ UNCHANGED <<baseDF, part, tagged, sessionStatsDF, sessionDurationsDF,
                   avgSessionStatsDF, uniqueURLDF>>
    /\ UNCHANGED udfVars

Next ==
    \/ ReadLine
    \/ Tag
    \/ ShowSessionStats
    \/ ShowAvgSessionStats
    \/ ShowUniqueURL
    \/ ShowMostEngauged

Spec == Init /\ [][Next]_vars

----------------------------------------------------------------------------
(* What the claims speak of, stated over the input rather than as computed *)

HitsShown == pc \in {"avg", "url", "engaged", "done", "error"}

AvgShown == pc \in {"url", "engaged", "done", "error"}

UrlShown == pc \in {"engaged", "done"}

EngagedShown == pc = "done"

Events == 1..Len(baseDF)

\* the client of input row i: client_port up to its first ':'
ClientOf(i) ==
    LET cp == baseDF[i].client_port
        n == CHOOSE k \in 1..Len(cp) : cp[k] = ":" /\ \A j \in 1..(k - 1) : cp[j] # ":"
    IN  SubSeq(cp, 1, n - 1)

\* the quarter-hour bucket of input row i, 1 to 4, by the boundary rule
BucketOf(i) ==
    LET t == SecondOfHour(baseDF[i].timestamp)
    IN  IF t <= 900 THEN 1 ELSE IF t <= 1800 THEN 2 ELSE IF t <= 2700 THEN 3 ELSE 4

\* date, hour and bucket of input row i
WindowOf(i) ==
    LET ts == baseDF[i].timestamp
    IN  <<ts.year, ts.month, ts.day, ts.hour, BucketOf(i)>>

SetMax(S) == CHOOSE x \in S : \A y \in S : y <= x

SetMin(S) == CHOOSE x \in S : \A y \in S : x <= y

\* latest minus earliest timestamp, in seconds, of the input rows in E
Span(E) ==
    LET secs == {CastLong(baseDF[i].timestamp) : i \in E}
    IN  SetMax(secs) - SetMin(secs)

\* the input rows tagged with the pair (ipStr, sid)
EventsOf(ipStr, sid) ==
    {i \in Events : tagged[i].ip = ipStr /\ tagged[i].session_id = sid}

\* the input rows tagged with the session id sid
EventsOfSession(sid) == {i \in Events : tagged[i].session_id = sid}

\* the session ids of the client ipStr
SessionsOf(ipStr) == {tagged[i].session_id : i \in {j \in Events : tagged[j].ip = ipStr}}

\* the user named u is a user of the client ipStr
IsUserOf(u, ipStr) ==
    Len(u) > Len(ipStr) /\ SubSeq(u, 1, Len(ipStr) + 1) = ipStr \o <<"_">>

----------------------------------------------------------------------------
(* Claims *)

\* C2: two events get the same SessionId if and only if they fall in the same
\* date, hour and quarter-hour bucket and have the same client, also for clients
\* that differ only in '.' versus '-'.
C2_SameSessionIffSameWindowAndClient ==
    pc # "read" =>
        \A i, j \in Events :
            (tagged[i].session_id = tagged[j].session_id)
                <=> (WindowOf(i) = WindowOf(j) /\ ClientOf(i) = ClientOf(j))

\* C3: the hit-count table has exactly one row per (ip, session_id) pair of the
\* input, total_hits is the number of input events of that pair, and the
\* total_hits of all rows add up to the number of input events.
C3_HitCounts ==
    HitsShown =>
        LET rows == Rows(sessionStatsDF)
            hits == [r \in rows |-> r.total_hits]
        IN  /\ Len(tagged) = Len(baseDF)
            /\ \A i \in Events :
                  Cardinality({r \in rows : r.ip = ClientOf(i)
                                   /\ r.session_id = tagged[i].session_id}) = 1
            /\ \A r \in rows :
                  /\ EventsOf(r.ip, r.session_id) # {}
                  /\ r.total_hits = Cardinality(EventsOf(r.ip, r.session_id))
            /\ SumOver(rows, hits) = Len(baseDF)

\* three events of one client, two in one session and one in another, counted
\* across two partitions
C3_Witness ==
    /\ HitsShown
    /\ Len(baseDF) = 3
    /\ part[1] # part[3]
    /\ \E r, q \in Rows(sessionStatsDF) :
          r.ip = q.ip /\ r.total_hits = 2 /\ q.total_hits = 1

\* C4: the session-duration table has exactly one row per ip of the input;
\* total_sessions is the number of distinct session ids of the ip and at least 1,
\* total_duration_sec the sum over them of latest minus earliest timestamp in
\* seconds, and avg_session_time_in_min * 60 * total_sessions = total_duration_sec.
C4_AvgSessionTime ==
    AvgShown =>
        LET rows == Rows(avgSessionStatsDF)
        IN  /\ \A i \in Events : Cardinality({r \in rows : r.ip = ClientOf(i)}) = 1
            /\ \A r \in rows :
                  LET sids == SessionsOf(r.ip)
                      dur == [sid \in sids |-> Span(EventsOf(r.ip, sid))]
                  IN  /\ sids # {}
                      /\ r.total_sessions = Cardinality(sids)
                      /\ r.total_sessions >= 1
                      /\ r.total_duration_sec = SumOver(sids, dur)
                      /\ r.avg_session_time_in_min.num * 60 * r.total_sessions
                            = r.total_duration_sec * r.avg_session_time_in_min.den
                      /\ (\A sid \in sids : Cardinality(EventsOf(r.ip, sid)) = 1)
                            => r.total_duration_sec = 0

\* a client with two sessions, one of them of 900 seconds
C4_Witness ==
    /\ AvgShown
    /\ \E r \in Rows(avgSessionStatsDF) :
          r.total_sessions = 2 /\ r.total_duration_sec = 900

\* the second whitespace-delimited token of the request of input row i
SecondToken(i) == Split(baseDF[i].request, " ")[2]

HasUrl(i) == Len(Split(baseDF[i].request, " ")) >= 2

\* C5: whenever the unique-URL table is produced it has exactly one row per
\* session id of the input, and num_unique_hits is the number of distinct URLs
\* among the events of the session, a URL requested several times counting once.
C5_UniqueUrls ==
    UrlShown =>
        LET rows == Rows(uniqueURLDF)
        IN  /\ \A i \in Events :
                  Cardinality({r \in rows : r.session_id = tagged[i].session_id}) = 1
            /\ \A r \in rows :
                  LET E == EventsOfSession(r.session_id)
                  IN  /\ E # {}
                      /\ r.num_unique_hits
                            = Cardinality({SecondToken(i) : i \in {j \in E : HasUrl(j)}})
                      /\ (\A i, j \in E : HasUrl(i) /\ HasUrl(j)
                                             /\ SecondToken(i) = SecondToken(j))
                            => r.num_unique_hits = 1
                      /\ (\A i, j \in E : HasUrl(i)
                                             /\ (i # j => SecondToken(i) # SecondToken(j)))
                            => r.num_unique_hits = Cardinality(E)

\* a session of three events, two of them requesting the same URL
C5_Witness ==
    /\ UrlShown
    /\ \E r \in Rows(uniqueURLDF) :
          /\ Cardinality(EventsOfSession(r.session_id)) = 3
          /\ r.num_unique_hits = 2

\* the user agents of the events of the pair (ipStr, sid)
AgentsOf(ipStr, sid) == {baseDF[i].user_agent : i \in EventsOf(ipStr, sid)}

\* C6: events of one ip in one session are in the same (user, session_id) group
\* if and only if their user agents are equal: the session has one group per
\* user agent, the group's duration_min is (latest - earliest) / 60 over the
\* events of that user agent, and two events with different user agents give two
\* groups of duration 0.
C6_EngagementGroups ==
    EngagedShown =>
        LET rows == Rows(mostEngaugedDF)
        IN  \A i \in Events :
                LET ipStr == ClientOf(i)
                    sid == tagged[i].session_id
                    mine == {r \in rows : r.session_id = sid /\ IsUserOf(r.user, ipStr)}
                    same == {j \in EventsOf(ipStr, sid) :
                                baseDF[j].user_agent = baseDF[i].user_agent}
                IN  /\ Cardinality(mine) = Cardinality(AgentsOf(ipStr, sid))
                    /\ Cardinality({r.user : r \in mine}) = Cardinality(mine)
                    /\ \E r \in mine : r.duration_min = Frac(Span(same), 60)
                    /\ {r.duration_min : r \in mine}
                          = {Frac(Span({j \in EventsOf(ipStr, sid) :
                                           baseDF[j].user_agent = ua}), 60)
                                : ua \in AgentsOf(ipStr, sid)}
                    /\ (Len(baseDF) = 2 /\ Cardinality(EventsOf(ipStr, sid)) = 2
                            /\ baseDF[1].user_agent # baseDF[2].user_agent)
                          => /\ Cardinality(mine) = 2
                             /\ \A r \in mine : r.duration_min = Frac(0, 60)

\* two events of one ip in one session with different user agents, in two groups
C6_Witness ==
    /\ EngagedShown
    /\ Len(baseDF) = 2
    /\ tagged[1].ip = tagged[2].ip
    /\ tagged[1].session_id = tagged[2].session_id
    /\ baseDF[1].user_agent # baseDF[2].user_agent
    /\ Cardinality(Rows(mostEngaugedDF)) = 2

\* C7: an input with a request of fewer than two tokens never puts the
\* unique-URL pass in an error state, and the table it then produces has a row
\* for every session id of the input.
C7_ShortRequestNeverFails ==
    (\E i \in Events : ~HasUrl(i)) =>
        /\ pc # "error"
        /\ UrlShown =>
              \A i \in Events :
                  \E r \in Rows(uniqueURLDF) : r.session_id = tagged[i].session_id

\* every row in the first partition
AllInOne == [i \in 1..Len(tagged) |-> 1]

\* the partitions merged in their own order
InOrder == [k \in 1..NumPartitions |-> k]

\* C8: whatever the split of the input into partitions and the order in which
\* the partial results were merged, each table holds the rows a single pass over
\* the whole input gives, in the input's order or in the reverse order, and each
\* session's duration is the merged latest minus the merged earliest timestamp.
C8_PartitionIndependent ==
    \A rows \in {tagged, Reverse(tagged)} :
        /\ HitsShown =>
              Rows(sessionStatsDF) = Rows(SessionStats(rows, AllInOne, InOrder))
        /\ AvgShown =>
              /\ sessionDurationsDF = SessionDurations(rows, AllInOne, InOrder)
              /\ \A q \in sessionDurationsDF :
                    q.duration_sec = Span(EventsOf(q.ip, q.session_id))
              /\ \A d \in Orderings(SessionDurations(rows, AllInOne, InOrder)) :
                    Rows(avgSessionStatsDF) = Rows(AvgSessionStats(d))
        /\ UrlShown =>
              Rows(uniqueURLDF) = Rows(UniqueURL(rows, AllInOne, InOrder))
        /\ EngagedShown =>
              Rows(mostEngaugedDF) = Rows(MostEngauged(rows, AllInOne, InOrder))

\* the earliest and the latest event of a session lie in different partitions,
\* an event between them in time was read last, and all four tables are there
C8_Witness ==
    /\ EngagedShown
    /\ Len(baseDF) = 3
    /\ part[1] # part[2]
    /\ tagged[1].session_id = tagged[2].session_id
    /\ tagged[1].session_id = tagged[3].session_id
    /\ tagged[1].ip = tagged[2].ip
    /\ CastLong(baseDF[2].timestamp) < CastLong(baseDF[3].timestamp)
    /\ CastLong(baseDF[3].timestamp) < CastLong(baseDF[1].timestamp)

\* C9: with no input rows no pass ends in an error and every table is empty.
C9_EmptyInput ==
    (Len(baseDF) = 0 /\ pc # "read") =>
        /\ pc # "error"
        /\ Rows(sessionStatsDF) = {}
        /\ Rows(avgSessionStatsDF) = {}
        /\ Rows(uniqueURLDF) = {}
        /\ Rows(mostEngaugedDF) = {}

\* the script has run to its end on an empty input
C9_Witness ==
    /\ pc = "done"
    /\ baseDF = <<>>
    /\ sessionStatsDF = <<>>
    /\ avgSessionStatsDF = <<>>
    /\ uniqueURLDF = <<>>
    /\ mostEngaugedDF = <<>>

Fifteen == [num |-> 15, den |-> 1]

====
